---- MODULE Spec2Model ----
(***************************************************************************)
(* A model of letter-boxed-bot (src/src/lib.rs, src/src/game_data.rs):     *)
(* the Sides and Game types, the level-order Solver with its parallel      *)
(* branch expansion, and the puzzle provider behind Game::today and        *)
(* Game::yesterday.                                                        *)
(*                                                                         *)
(* A letter (Rust char) is a one-character string, a word (&str / String)  *)
(* is a non-empty sequence of letters.  All letters are ASCII capitals, so *)
(* a String's len() in bytes is its number of letters.                     *)
(***************************************************************************)
EXTENDS Naturals, Sequences, FiniteSets, Bags

VARIABLES
    game,            \* Spec: the Game under test; SpecSolve: solve_game's `game` argument
    last,            \* Spec: the last Game method called, its argument and what it returned
    WORDS,           \* SpecSolve: the static dictionary words::WORDS
    min_words,       \* SpecSolve: solve_game's `min_words` argument
    possible_words,  \* solve_game's local `possible_words`
    solutions,       \* solve_game's Mutex<Vec<Vec<String>>>, in push order
    lock,            \* the holder of the solutions mutex (a branch), or NoBranch
    games,           \* solve_game's frontier `games`
    level,           \* the number of iterations of `for _ in 0..10` started so far
    branches,        \* the parallel tasks of the level in progress, one per frontier Game
    pc,              \* solve_game's position
    result,          \* the Vec solve_game returned
    entry,           \* SpecData: the constructor called, "today" or "yesterday"
    env,             \* SpecData: what the network and the page hold (the provider's answer)
    dpc,             \* SpecData: the position inside Game::today / Game::yesterday
    dresult          \* SpecData: what Game::today / Game::yesterday returned

gvars == <<game, last>>
svars == <<WORDS, min_words, possible_words, solutions, lock, games, level, branches, pc, result>>
dvars == <<entry, env, dpc, dresult>>
vars == <<game, last, WORDS, min_words, possible_words, solutions, lock, games, level,
          branches, pc, result, entry, env, dpc, dresult>>

----------------------------------------------------------------------------
(* Words used as inputs.                                                   *)

OKRA == <<"O", "K", "R", "A">>
ADJECTIVAL == <<"A", "D", "J", "E", "C", "T", "I", "V", "A", "L">>
ADJECT == <<"A", "D", "J", "E", "C", "T">>
TRIVIAL == <<"T", "R", "I", "V", "I", "A", "L">>
KOALA == <<"K", "O", "A", "L", "A">>
ARIA == <<"A", "R", "I", "A">>
DECAL == <<"D", "E", "C", "A", "L">>
TRIAL == <<"T", "R", "I", "A", "L">>
\* no English word: one word that alone uses all twelve letters of the test puzzle
DJCEKTLRIAVO == <<"D", "J", "C", "E", "K", "T", "L", "R", "I", "A", "V", "O">>
\* R and E lie on the same side of the test puzzle
TREK == <<"T", "R", "E", "K">>
\* Y is no letter of the test puzzle
OKAY == <<"O", "K", "A", "Y">>

\* String::chars().next().unwrap() and String::chars().last().unwrap()
FirstChar(word) == word[1]
LastChar(word) == word[Len(word)]
\* word.chars().collect::<HashSet<char>>()
CharSet(word) == {word[i] : i \in DOMAIN word}
\* Vec::last() of a non-empty Vec
LastOf(seq) == seq[Len(seq)]
\* [char; 3]::contains
Contains(arr, letter) == \E i \in DOMAIN arr : arr[i] = letter

----------------------------------------------------------------------------
(* Sides                                                                   *)

\* Sides::new
Sides_new(top, right, bottom, left) ==
    [top |-> top, right |-> right, bottom |-> bottom, left |-> left,
     all_chars |-> {top[1], top[2], top[3], right[1], right[2], right[3],
                    bottom[1], bottom[2], bottom[3], left[1], left[2], left[3]}]

\* Sides::get_side: Option<Side>, the first side in the order top, right, bottom, left
get_side(sides, letter) ==
    IF letter \notin sides.all_chars THEN "None"
    ELSE IF Contains(sides.top, letter) THEN "Top"
    ELSE IF Contains(sides.right, letter) THEN "Right"
    ELSE IF Contains(sides.bottom, letter) THEN "Bottom"
    ELSE IF Contains(sides.left, letter) THEN "Left"
    ELSE "None"

\* Sides::get_letters
get_letters(sides, side) ==
    CASE side = "Top" -> sides.top
      [] side = "Right" -> sides.right
      [] side = "Bottom" -> sides.bottom
      [] side = "Left" -> sides.left

\* tests::setup_game's sides: Sides::from_str("DKI", "JTA", "CLV", "ERO")
TestSides == Sides_new(<<"D", "K", "I">>, <<"J", "T", "A">>, <<"C", "L", "V">>, <<"E", "R", "O">>)
\* a puzzle with a letter repeated across sides: A on the right and on the bottom
RepeatSides == Sides_new(<<"D", "K", "I">>, <<"J", "T", "A">>, <<"C", "L", "A">>, <<"E", "R", "O">>)

----------------------------------------------------------------------------
(* Game                                                                    *)

\* Game::new
Game_new(sides) ==
    [sides |-> sides,
     used_letters |-> {},
     remaining_letters |-> sides.all_chars,
     previous_words |-> <<>>]

\* mutant of check_dict_word: the head/tail rule left out
check_dict_word_no_chain(g, word) ==
    /\ \A i \in DOMAIN word : get_side(g.sides, word[i]) # "None"
    /\ \A i \in 1..(Len(word) - 1) :
           ~Contains(get_letters(g.sides, get_side(g.sides, word[i])), word[i + 1])

\* mutant of check_dict_word: the side of the letter is compared with the side before
check_dict_word_same_side(g, word) ==
    /\ g.previous_words # <<>> => LastChar(LastOf(g.previous_words)) = FirstChar(word)
    /\ \A i \in DOMAIN word : get_side(g.sides, word[i]) # "None"
    /\ \A i \in 1..(Len(word) - 1) :
           get_side(g.sides, word[i]) # get_side(g.sides, word[i + 1])

\* the `for letter in word.chars()` loop of check_dict_word, from letter i on
RECURSIVE check_letters(_, _, _, _)
check_letters(sides, word, i, prev_side) ==
    IF i > Len(word) THEN TRUE
    ELSE LET letter == word[i]
             side == get_side(sides, letter)
         IN  IF side # "None"
             THEN IF prev_side # "None" /\ Contains(get_letters(sides, prev_side), letter)
                  THEN FALSE
                  ELSE check_letters(sides, word, i + 1, side)
             ELSE FALSE

\* Game::check_dict_word
check_dict_word(g, word) ==
    IF g.previous_words # <<>>
       /\ LastChar(LastOf(g.previous_words)) # FirstChar(word)
    THEN FALSE
    ELSE check_letters(g.sides, word, 1, "None")

\* Game::count_new_letters: the letters of the word that are not in remaining_letters
count_new_letters(g, word) == Cardinality(CharSet(word) \ g.remaining_letters)

\* mutant of play_word_game: the letters are not removed from remaining_letters
play_word_keep_remaining(g, word) ==
    [g EXCEPT !.used_letters = @ \cup CharSet(word),
              !.previous_words = Append(@, word)]

\* Game::play_word, the Game it leaves
play_word_game(g, word) ==
    [g EXCEPT !.used_letters = @ \cup CharSet(word),
              !.remaining_letters = @ \ CharSet(word),
              !.previous_words = Append(@, word)]

\* Game::play_word, the usize it returns: count_new_letters is called after the mutation
play_word(g, word) == count_new_letters(play_word_game(g, word), word)

\* mutant of check_win: more than 3 * 4 letters are asked for
check_win_more_than(g) == Cardinality(g.used_letters) > 3 * 4

\* Game::check_win
check_win(g) == Cardinality(g.used_letters) = 3 * 4

\* possible_words without its filter: every word of the dictionary
Game_possible_words_unfiltered(g, words) == {words[i] : i \in DOMAIN words}

\* Game::possible_words over the dictionary `words` (words::WORDS), collected into a HashSet
Game_possible_words(g, words) ==
    {words[i] : i \in {j \in DOMAIN words : check_dict_word(g, words[j])}}

----------------------------------------------------------------------------
(* Solver                                                                  *)

\* Solver::quick_filter_possible_words
quick_filter_possible_words(g, possible) ==
    IF g.previous_words = <<>>
    THEN possible
    ELSE {word \in possible : FirstChar(word) = LastChar(LastOf(g.previous_words))}

\* s.join(""): the words of a chain concatenated
RECURSIVE join(_)
join(s) == IF s = <<>> THEN <<>> ELSE join(SubSeq(s, 1, Len(s) - 1)) \o LastOf(s)

\* the key of solve_game's sort: s.join("").len()
sort_key(s) == Len(join(s))

\* one step of the stable sort: s goes behind every element whose key is not greater
insert_by_key(sorted, s) ==
    LET n == Cardinality({i \in DOMAIN sorted : sort_key(sorted[i]) <= sort_key(s)})
    IN  SubSeq(sorted, 1, n) \o <<s>> \o SubSeq(sorted, n + 1, Len(sorted))

\* mutant of sort_by_key: the solutions are returned in push order
sort_keep_order(v) == v

\* Vec::sort_by_key(|s| s.join("").len()): a stable sort, ascending by the key
RECURSIVE sort_by_key(_)
sort_by_key(v) ==
    IF v = <<>> THEN <<>>
    ELSE insert_by_key(sort_by_key(SubSeq(v, 1, Len(v) - 1)), LastOf(v))

\* mutant of early_exit: the loop never breaks
early_exit_never(sols, n) == FALSE

\* mutant of early_exit: the comparison turned round
early_exit_at_most(sols, n) == \E i \in DOMAIN sols : Len(sols[i]) <= n

\* the early-exit test with > for >=
early_exit_longer(sols, n) == \E i \in DOMAIN sols : Len(sols[i]) > n

\* the early-exit test with all() for any(): true of an empty collection
early_exit_all(sols, n) == \A i \in DOMAIN sols : Len(sols[i]) >= n

\* solutions.iter().any(|s| s.len() >= min_words): the early-exit test
early_exit(sols, n) == \E i \in DOMAIN sols : Len(sols[i]) >= n

\* a range that is one iteration too long
MaxLevels_one_more == 10 + 1

\* the upper end of `for _ in 0..10`
MaxLevels == 10

NoBranch == <<>>
NoChain == <<>>

\* a Mutex without its test: lock() returns although another task holds the guard
lock_unguarded(owner) == TRUE

\* solutions.lock(): the call returns only when no task holds the guard
lock_free(owner) == owner = NoBranch

\* the candidate words kept as the filtered list of WORDS, a word as often as listed
word_iter_listed(set) ==
    [w \in set |-> Cardinality({i \in DOMAIN WORDS : WORDS[i] = w})]

\* the iteration of a HashSet of words: each word of the set once
word_iter(set) == SetToBag(set)

\* the tasks par_iter makes of the frontier: one per Game of `games`, each with the
\* candidate words its closure still has to visit, the Games it has collected,
\* the chain of a won clone it has not pushed yet, and whether it holds the guard
branches_of(frontier, possible) ==
    [b \in {c \in BagToSet(frontier) \X (1..BagCardinality(frontier)) :
               c[2] <= CopiesIn(c[1], frontier)} |->
        [todo |-> word_iter(quick_filter_possible_words(b[1], possible)),
         out |-> EmptyBag,
         cur |-> NoChain,
         locked |-> FALSE]]

\* a task taken as done when it has nothing to push, words left to visit or not
finished_early(br) == br.cur = NoChain

\* a task has visited all its words and pushed what it had to push
finished(br) == br.todo = EmptyBag /\ br.cur = NoChain

\* the flat_map's collect: the Games all tasks kept
RECURSIVE collect(_, _)
collect(brs, ids) ==
    IF ids = {} THEN EmptyBag
    ELSE LET b == CHOOSE c \in ids : TRUE
         IN  brs[b].out (+) collect(brs, ids \ {b})

----------------------------------------------------------------------------
(* The inputs                                                              *)

\* the longest chain the Game specification plays
MaxPlays == 3
\* the largest dictionary, in distinct words
MaxDict == 4
\* the largest min_words
MaxMinWords == 3

Puzzles == {TestSides, RepeatSides}
\* the words the Game specification plays and checks
PlayWords == {OKRA, ADJECTIVAL, ADJECT, TRIAL, ARIA, DECAL, TREK, OKAY}
\* the words a dictionary is made of
Universe == <<OKRA, KOALA, ARIA, ADJECT, ADJECTIVAL, TRIVIAL, DJCEKTLRIAVO, TREK, OKAY>>
\* the dictionaries: up to MaxDict words, the first of them possibly listed twice
Dictionaries ==
    LET idx == {I \in SUBSET DOMAIN Universe : Cardinality(I) <= MaxDict}
        pick(I) == SelectSeq(Universe, LAMBDA w : \E i \in I : Universe[i] = w)
    IN  {pick(I) : I \in idx} \cup {pick(I) \o <<pick(I)[1]>> : I \in idx \ {{}}}
\* the Games solve_game is called on: a fresh one, and one with a word played
StartGames == {Game_new(TestSides), play_word_game(Game_new(TestSides), OKRA)}

GameIdle == /\ last = [op |-> "none", word |-> <<>>, ret |-> FALSE]
SolverIdle ==
    /\ WORDS = <<>> /\ min_words = 0 /\ possible_words = {} /\ solutions = <<>>
    /\ lock = NoBranch /\ games = EmptyBag /\ level = 0 /\ branches = <<>>
    /\ pc = "idle" /\ result = <<>>
DataIdle == entry = "none" /\ env = <<>> /\ dpc = "idle" /\ dresult = "none"

----------------------------------------------------------------------------
(* Spec: a Game and the calls of its methods                               *)

Init ==
    /\ \E sides \in Puzzles : game = Game_new(sides)
    /\ last = [op |-> "new", word |-> <<>>, ret |-> FALSE]
    /\ SolverIdle /\ DataIdle

PlayWord(word) ==
    /\ pc = "idle"
    /\ Len(game.previous_words) < MaxPlays
    /\ game' = play_word_game(game, word)
    /\ last' = [op |-> "play_word", word |-> word, ret |-> play_word(game, word)]
    /\ UNCHANGED <<svars, dvars>>

CheckDictWord(word) ==
    /\ pc = "idle"
    /\ last' = [op |-> "check_dict_word", word |-> word, ret |-> check_dict_word(game, word)]
    /\ UNCHANGED <<game, svars, dvars>>

CheckWin ==
    /\ pc = "idle"
    /\ last' = [op |-> "check_win", word |-> <<>>, ret |-> check_win(game)]
    /\ UNCHANGED <<game, svars, dvars>>

Next ==
    \/ \E word \in PlayWords : PlayWord(word)
    \/ \E word \in PlayWords : CheckDictWord(word)
    \/ CheckWin

Spec == Init /\ [][Next]_vars

----------------------------------------------------------------------------
(* SpecSolve: one call of Solver::solve_game                               *)

SolveInit ==
    /\ game \in StartGames
    /\ WORDS \in Dictionaries
    /\ min_words \in 0..MaxMinWords
    /\ possible_words = {} /\ solutions = <<>> /\ lock = NoBranch /\ games = EmptyBag
    /\ level = 0 /\ branches = <<>> /\ pc = "start" /\ result = <<>>
    /\ GameIdle /\ DataIdle

\* lib.rs 236-239: the locals
SolveStart ==
    /\ pc = "start"
    /\ possible_words' = Game_possible_words(game, WORDS)
    /\ solutions' = <<>>
    /\ games' = SetToBag({game})
    /\ pc' = "loop"
    /\ UNCHANGED <<game, WORDS, min_words, lock, level, branches, result, last, dvars>>

\* lib.rs 241-246: the loop head; the range is exhausted
LoopExhausted ==
    /\ pc = "loop" /\ level = MaxLevels
    /\ pc' = "sort"
    /\ UNCHANGED <<game, WORDS, min_words, possible_words, solutions, lock, games, level,
                   branches, result, last, dvars>>

\* lib.rs 242-245: the early exit
LoopBreak ==
    /\ pc = "loop" /\ level < MaxLevels
    /\ lock = NoBranch
    /\ early_exit(solutions, min_words)
    /\ pc' = "sort"
    /\ UNCHANGED <<game, WORDS, min_words, possible_words, solutions, lock, games, level,
                   branches, result, last, dvars>>

\* lib.rs 248: par_iter over the frontier starts
LevelStart ==
    /\ pc = "loop" /\ level < MaxLevels
    /\ lock = NoBranch
    /\ ~early_exit(solutions, min_words)
    /\ branches' = branches_of(games, possible_words)
    /\ pc' = "expand"
    /\ UNCHANGED <<game, WORDS, min_words, possible_words, solutions, lock, games, level,
                   result, last, dvars>>

\* the closure without its None: a won clone is recorded and kept in the frontier too
Play_keep_won(b, w) ==
    /\ pc = "expand"
    /\ branches[b].cur = NoChain
    /\ BagIn(w, branches[b].todo)
    /\ LET g == play_word_game(b[1], w)
       IN  branches' = [branches EXCEPT ![b] =
               [@ EXCEPT !.todo = @ (-) SetToBag({w}),
                         !.out = @ (+) SetToBag({g}),
                         !.cur = IF check_win(g) THEN g.previous_words ELSE NoChain]]
    /\ UNCHANGED <<game, WORDS, min_words, possible_words, solutions, lock, games, level,
                   pc, result, last, dvars>>

\* lib.rs 252-262: a task clones its Game, plays the next word and checks the win
Play(b, w) ==
    /\ pc = "expand"
    /\ branches[b].cur = NoChain
    /\ BagIn(w, branches[b].todo)
    /\ LET g == play_word_game(b[1], w)
       IN  branches' = [branches EXCEPT ![b] =
               IF check_win(g)
               THEN [@ EXCEPT !.todo = @ (-) SetToBag({w}), !.cur = g.previous_words]
               ELSE [@ EXCEPT !.todo = @ (-) SetToBag({w}),
                              !.out = @ (+) SetToBag({g})]]
    /\ UNCHANGED <<game, WORDS, min_words, possible_words, solutions, lock, games, level,
                   pc, result, last, dvars>>

\* lib.rs 256: solutions.lock()
Acquire(b) ==
    /\ pc = "expand"
    /\ branches[b].cur # NoChain
    /\ ~branches[b].locked
    /\ lock_free(lock)
    /\ lock' = b
    /\ branches' = [branches EXCEPT ![b].locked = TRUE]
    /\ UNCHANGED <<game, WORDS, min_words, possible_words, solutions, games, level,
                   pc, result, last, dvars>>

\* lib.rs 257-258: the push, and the guard dropped
Push(b) ==
    /\ pc = "expand"
    /\ branches[b].locked
    /\ solutions' = Append(solutions, branches[b].cur)
    /\ branches' = [branches EXCEPT ![b].cur = NoChain, ![b].locked = FALSE]
    /\ lock' = NoBranch
    /\ UNCHANGED <<game, WORDS, min_words, possible_words, games, level, pc, result,
                   last, dvars>>

\* lib.rs 266: the collect into the new frontier, and the end of the iteration
LevelEnd ==
    /\ pc = "expand"
    /\ \A b \in DOMAIN branches : finished(branches[b])
    /\ games' = collect(branches, DOMAIN branches)
    /\ branches' = <<>>
    /\ level' = level + 1
    /\ pc' = "loop"
    /\ UNCHANGED <<game, WORDS, min_words, possible_words, solutions, lock, result,
                   last, dvars>>

\* lib.rs 269-271: the sort and the return
SortAndReturn ==
    /\ pc = "sort"
    /\ result' = sort_by_key(solutions)
    /\ pc' = "done"
    /\ UNCHANGED <<game, WORDS, min_words, possible_words, solutions, lock, games, level,
                   branches, last, dvars>>

SolveNext ==
    \/ SolveStart
    \/ LoopExhausted
    \/ LoopBreak
    \/ LevelStart
    \/ \E b \in DOMAIN branches : \E w \in BagToSet(branches[b].todo) : Play(b, w)
    \/ \E b \in DOMAIN branches : Acquire(b)
    \/ \E b \in DOMAIN branches : Push(b)
    \/ LevelEnd
    \/ SortAndReturn

SpecSolve == SolveInit /\ [][SolveNext]_vars

\* solve_game with its threads scheduled: the calling thread and the pool's workers
\* keep running, and a task that waits for the mutex gets it when it is released
SpecSolveFair == SolveInit /\ [][SolveNext]_vars /\ WF_vars(SolveNext)

----------------------------------------------------------------------------
(* SpecData: one call of Game::today or Game::yesterday                    *)

\* the lengths of the four strings of GameData.sides / GameData.yesterdaysSides
SideLengths == {<<3, 3, 3, 3>>, <<3, 3, 2, 3>>, <<3, 4, 3, 3>>}

\* what the provider can answer: blocking::get's Result, Response::text's Result, the
\* script holding "window.gameData" (absent, shorter than the prefix that is cut off,
\* or present), serde_json::from_str's Result, and the sides of the record
Environments ==
    [net : {"ok", "err"}, body : {"ok", "err"}, script : {"absent", "short", "present"},
     json : {"ok", "err"}, sides : SideLengths, yesterdaysSides : SideLengths]

\* chars().collect::<Vec<char>>().try_into().unwrap() of the four sides: Ok for 3 chars each
from_sides_ok(lens) == \A i \in DOMAIN lens : lens[i] = 3

DataInit ==
    /\ entry \in {"today", "yesterday"}
    /\ env \in Environments
    /\ dpc = "get"
    /\ dresult = "none"
    /\ game = Game_new(TestSides)
    /\ GameIdle /\ SolverIdle

\* game_data.rs 24-25: blocking::get(..), then response.unwrap()
GetResponse ==
    /\ dpc = "get"
    /\ dpc' = IF env.net = "ok" THEN "text" ELSE "panic"
    /\ UNCHANGED <<entry, env, dresult, gvars, svars>>

\* game_data.rs 25: .text().unwrap()
ReadText ==
    /\ dpc = "text"
    /\ dpc' = IF env.body = "ok" THEN "find" ELSE "panic"
    /\ UNCHANGED <<entry, env, dresult, gvars, svars>>

\* game_data.rs 30-32 and 43: the script is looked for and its prefix cut off; without
\* the script get_data returns None, and so does the constructor (lib.rs 124, 135)
FindScript ==
    /\ dpc = "find"
    /\ IF env.script = "absent"
       THEN dpc' = "done" /\ dresult' = "None"
       ELSE /\ dpc' = IF env.script = "short" THEN "panic" ELSE "parse"
            /\ dresult' = dresult
    /\ UNCHANGED <<entry, env, gvars, svars>>

\* game_data.rs 33-40 and 43: serde_json::from_str; an Err is printed and None returned
ParseJson ==
    /\ dpc = "parse"
    /\ IF env.json = "ok"
       THEN dpc' = "sides" /\ dresult' = dresult
       ELSE dpc' = "done" /\ dresult' = "None"
    /\ UNCHANGED <<entry, env, gvars, svars>>

\* lib.rs 120-123 / 131-134: Sides::from_sides of the record's sides, then Some(Game::new)
MakeGame ==
    /\ dpc = "sides"
    /\ IF from_sides_ok(IF entry = "today" THEN env.sides ELSE env.yesterdaysSides)
       THEN dpc' = "done" /\ dresult' = "Some"
       ELSE dpc' = "panic" /\ dresult' = dresult
    /\ UNCHANGED <<entry, env, gvars, svars>>

DataNext == GetResponse \/ ReadText \/ FindScript \/ ParseJson \/ MakeGame

SpecData == DataInit /\ [][DataNext]_vars

----------------------------------------------------------------------------
(* SpecBoth: the Game's methods called directly, or one call of solve_game *)

SpecBoth == (Init \/ SolveInit) /\ [][Next \/ SolveNext]_vars
----------------------------------------------------------------------------
(* The notions the properties are stated in, taken from the rules of the   *)
(* puzzle and not from the code above.                                     *)

\* the letters of the words of a chain
LettersOfChain(chain) == UNION {CharSet(chain[i]) : i \in DOMAIN chain}
\* a sequence without its last element
Front(seq) == SubSeq(seq, 1, Len(seq) - 1)
\* the elements of a sequence
Range(seq) == {seq[i] : i \in DOMAIN seq}
\* the total number of letters of the words of a chain
RECURSIVE TotalChars(_)
TotalChars(chain) == IF chain = <<>> THEN 0 ELSE Len(chain[1]) + TotalChars(Tail(chain))

\* rule 1, the head/tail rule
ChainRule(g, word) ==
    g.previous_words # <<>> => FirstChar(word) = LastChar(LastOf(g.previous_words))
\* rule 2, every letter belongs to the puzzle's alphabet
AlphabetRule(sides, word) == CharSet(word) \subseteq sides.all_chars
\* rule 3 as the specification words it: consecutive letters have different sides
SameSideRule(sides, word) ==
    \A i \in 1..(Len(word) - 1) : get_side(sides, word[i]) # get_side(sides, word[i + 1])
\* rule 3 as it holds of every puzzle: no letter is one of the letters of the side of
\* the letter before it
AdjacencyRule(sides, word) ==
    \A i \in 1..(Len(word) - 1) :
        \A j \in 1..3 : get_letters(sides, get_side(sides, word[i]))[j] # word[i + 1]
\* the twelve letters of the sides are pairwise distinct
NoRepeatedLetter(sides) == Cardinality(sides.all_chars) = 12

----------------------------------------------------------------------------
(* Properties of the Game (Spec)                                           *)

\* C1: play_word returns the number of distinct letters of the word that were not in
\* used_letters before the call, 0 when all of them were used already.  The letters
\* used before the call are those of the chain without its last word.
C1_PlayWordCountsNewLetters ==
    last.op = "play_word" =>
        last.ret = Cardinality(CharSet(last.word) \ LettersOfChain(Front(game.previous_words)))

\* C6, as claimed: in every Game state used_letters and remaining_letters are disjoint
\* and their union is the puzzle's alphabet, whatever words were played.
C6_Original ==
    /\ game.used_letters \cap game.remaining_letters = {}
    /\ game.used_letters \cup game.remaining_letters = game.sides.all_chars

\* C6, amended: used_letters and remaining_letters are disjoint and their union is the
\* alphabet together with the played letters that are outside the alphabet; it is the
\* alphabet whenever every played word consists of letters of the alphabet.
C6_UsedRemainingPartition ==
    /\ game.used_letters \cap game.remaining_letters = {}
    /\ game.used_letters \cup game.remaining_letters
           = game.sides.all_chars \cup LettersOfChain(game.previous_words)
    /\ (\A i \in DOMAIN game.previous_words :
            AlphabetRule(game.sides, game.previous_words[i]))
       => game.used_letters \cup game.remaining_letters = game.sides.all_chars

C6_Witness ==
    /\ Len(game.previous_words) = 2
    /\ \A i \in DOMAIN game.previous_words : AlphabetRule(game.sides, game.previous_words[i])
    /\ game.used_letters # {} /\ game.remaining_letters # {}
    /\ game.used_letters \cup game.remaining_letters = game.sides.all_chars

\* every word of the chain passed the three rules when it was played
RECURSIVE LegalChain(_, _)
LegalChain(sides, chain) ==
    \/ chain = <<>>
    \/ /\ LegalChain(sides, Front(chain))
       /\ Len(chain) > 1 => FirstChar(LastOf(chain)) = LastChar(chain[Len(chain) - 1])
       /\ AlphabetRule(sides, LastOf(chain))
       /\ AdjacencyRule(sides, LastOf(chain))

\* C7: check_win is true exactly when used_letters has as many letters as the puzzle's
\* alphabet, also for a puzzle with a letter repeated across sides.  Stated of the Games
\* a caller who validates every word can reach.
C7_CheckWinAlphabetSize ==
    (last.op = "check_win" /\ LegalChain(game.sides, game.previous_words)) =>
        (last.ret <=> Cardinality(game.used_letters) = Cardinality(game.sides.all_chars))

\* C8, as claimed: check_dict_word is true exactly when the head/tail rule, the alphabet
\* rule and "no two consecutive letters have the same get_side side" hold, also for a
\* puzzle with a letter repeated across sides.
C8_Original ==
    last.op = "check_dict_word" =>
        (last.ret <=> /\ ChainRule(game, last.word)
                      /\ AlphabetRule(game.sides, last.word)
                      /\ SameSideRule(game.sides, last.word))

\* C8, amended: check_dict_word is true exactly when the head/tail rule and the alphabet
\* rule hold and no letter of the word is one of the letters of the side that get_side
\* gives for the letter before it; without a repeated letter that is the claimed rule.
C8_CheckDictWordRules ==
    last.op = "check_dict_word" =>
        /\ last.ret <=> /\ ChainRule(game, last.word)
                        /\ AlphabetRule(game.sides, last.word)
                        /\ AdjacencyRule(game.sides, last.word)
        /\ NoRepeatedLetter(game.sides) =>
               (last.ret <=> /\ ChainRule(game, last.word)
                             /\ AlphabetRule(game.sides, last.word)
                             /\ SameSideRule(game.sides, last.word))

C8_Witness ==
    /\ last.op = "check_dict_word"
    /\ ~last.ret
    /\ ~NoRepeatedLetter(game.sides)
    /\ ChainRule(game, last.word)
    /\ AlphabetRule(game.sides, last.word)
    /\ SameSideRule(game.sides, last.word)
----------------------------------------------------------------------------
(* Properties of solve_game (SpecSolve, SpecBoth)                          *)

\* the call is Solver::solve(game): solve_game(game, 0)
IsSolve == min_words = 0
\* solve_game was called on a fresh Game
FreshStart == game.previous_words = <<>>
\* the dictionary words that satisfy the alphabet and adjacency rules
RefWords ==
    {w \in Range(WORDS) : AlphabetRule(game.sides, w) /\ SameSideRule(game.sides, w)}
\* the chain uses every letter of the puzzle
RefWon(chain) == game.sides.all_chars \subseteq LettersOfChain(chain)
\* the chains of S extended by one legal word each
RefExtend(S) ==
    {Append(cw[1], cw[2]) :
        cw \in {x \in S \X RefWords :
                   x[1] = <<>> \/ FirstChar(x[2]) = LastChar(LastOf(x[1]))}}
\* the legal chains of k words none of whose prefixes has won, the chain itself included
RECURSIVE RefOpen(_)
RefOpen(k) == IF k = 0 THEN {<<>>} ELSE {c \in RefExtend(RefOpen(k - 1)) : ~RefWon(c)}
\* the winning chains of k words, k >= 1, that play on from no won state
RefSolutions(k) == {c \in RefExtend(RefOpen(k - 1)) : RefWon(c)}

\* C2, as claimed: for a fresh Game and a dictionary with two legal words w1, w2 that
\* chain and together use all twelve letters, solve returns a non-empty list that
\* contains [w1, w2].
C2_Original ==
    (pc = "done" /\ IsSolve /\ FreshStart) =>
        \A w1, w2 \in RefWords :
            (FirstChar(w2) = LastChar(w1) /\ RefWon(<<w1, w2>>))
            => (result # <<>> /\ <<w1, w2>> \in Range(result))

\* C2, amended: the same, provided no legal word of the dictionary uses all twelve
\* letters alone (solve stops after the first level that has a solution).
C2_SolveFindsPair ==
    (pc = "done" /\ IsSolve /\ FreshStart /\ ~\E w \in RefWords : RefWon(<<w>>)) =>
        \A w1, w2 \in RefWords :
            (FirstChar(w2) = LastChar(w1) /\ RefWon(<<w1, w2>>))
            => (result # <<>> /\ <<w1, w2>> \in Range(result))

C2_Witness ==
    /\ pc = "done" /\ IsSolve /\ FreshStart
    /\ game.sides = TestSides
    /\ {OKRA, ADJECTIVAL} \subseteq Range(WORDS)
    /\ <<OKRA, ADJECTIVAL>> \in Range(result)

\* C3, as claimed: solve_game(game, 0) never takes the early exit: the loop runs all 10
\* levels and the result holds every winning chain of at most 10 words.
C3_Original ==
    (pc = "done" /\ IsSolve) =>
        /\ level = MaxLevels
        /\ FreshStart => \A k \in 1..MaxLevels : RefSolutions(k) \subseteq Range(result)

\* C3, amended: solve_game(game, 0) takes the early exit at the first loop head after a
\* level has produced a solution.  The loop runs all 10 levels only if the first 9
\* produce none, every returned chain was completed in the last level run, and for a
\* fresh Game the result holds exactly the winning chains of the least word count.
C3_SolveStopsAtFirstLevel ==
    (pc = "done" /\ IsSolve) =>
        /\ level < MaxLevels => result # <<>>
        /\ \A c \in Range(result) : Len(c) = Len(game.previous_words) + level
        /\ FreshStart =>
               /\ Range(result) = RefSolutions(level)
               /\ \A k \in 1..(level - 1) : RefSolutions(k) = {}

C3_Witness ==
    /\ pc = "done" /\ IsSolve /\ FreshStart
    /\ level = 2
    /\ Range(result) = {<<OKRA, ADJECTIVAL>>}
    /\ RefSolutions(3) # {}

\* C4: the returned list is sorted ascending by total character count: of two adjacent
\* chains the earlier has no more letters in its words than the later.
C4_ResultSorted ==
    pc = "done" =>
        \A i \in 1..(Len(result) - 1) : TotalChars(result[i]) <= TotalChars(result[i + 1])

C4_Witness ==
    /\ pc = "done"
    /\ Len(result) >= 2
    /\ result # solutions
    /\ TotalChars(result[1]) < TotalChars(result[Len(result)])

\* C5: when solve_game left the loop by the early exit (fewer than 10 levels were run),
\* the returned list holds a chain of at least min_words words.
C5_EarlyExitHasLongChain ==
    (pc = "done" /\ level < MaxLevels) =>
        \E i \in DOMAIN result : Len(result[i]) >= min_words

C5_Witness ==
    /\ pc = "done" /\ level < MaxLevels
    /\ \E i \in DOMAIN result : Len(result[i]) >= min_words
    /\ \E i \in DOMAIN result : Len(result[i]) < min_words

\* the chains a solve_game call holds: the frontier, what the tasks have collected or
\* are about to push, the solutions and the result
SolverChains ==
    {g.previous_words : g \in BagToSet(games)}
    \cup UNION {{g.previous_words : g \in BagToSet(branches[b].out)} : b \in DOMAIN branches}
    \cup {branches[b].cur : b \in DOMAIN branches}
    \cup Range(solutions) \cup Range(result)

\* C9: right after play_word(w), for a w that satisfies the alphabet and adjacency
\* rules, check_dict_word(w) is true exactly when w's last letter is its first; and the
\* solver extends a chain that ends in w with w again only if w's first letter is its
\* last.
C9_RepeatNeedsSameEnds ==
    /\ (/\ last.op = "check_dict_word"
        /\ game.previous_words # <<>>
        /\ last.word = LastOf(game.previous_words)
        /\ AlphabetRule(game.sides, last.word)
        /\ AdjacencyRule(game.sides, last.word))
       => (last.ret <=> FirstChar(last.word) = LastChar(last.word))
    /\ pc \notin {"idle", "start"} =>
           \A c \in SolverChains :
               \A i \in 1..(Len(c) - 1) :
                   (i >= Len(game.previous_words) /\ i >= 1 /\ c[i] = c[i + 1])
                   => FirstChar(c[i]) = LastChar(c[i])

C9_Witness ==
    /\ last.op = "check_dict_word"
    /\ game.previous_words # <<>>
    /\ last.word = LastOf(game.previous_words)
    /\ AlphabetRule(game.sides, last.word)
    /\ AdjacencyRule(game.sides, last.word)
    /\ FirstChar(last.word) # LastChar(last.word)
    /\ ~last.ret

\* C11: when no word of the dictionary satisfies the alphabet and adjacency rules,
\* solve_game, whatever min_words is, never records a solution, has an empty frontier
\* from the first level on, leaves the loop only at the depth cap of 10 levels, and
\* returns the empty list.
C11_NoLegalWordEmptyResult ==
    (RefWords = {} /\ pc \notin {"idle", "start"}) =>
        /\ solutions = <<>>
        /\ level >= 1 => games = EmptyBag
        /\ pc \in {"sort", "done"} => level = MaxLevels
        /\ pc = "done" => result = <<>>

C11_Witness ==
    /\ pc = "done"
    /\ RefWords = {}
    /\ Len(WORDS) >= 2
    /\ level = MaxLevels
    /\ result = <<>>

\* C12: the word set solve_game computes before the loop does not depend on the
\* starting Game's chain: for every starting Game, one with a non-empty chain included,
\* it is exactly the set of dictionary words that satisfy the alphabet and adjacency
\* rules, the chaining rule not applied.
C12_PossibleWordsStateIndependent ==
    pc \notin {"idle", "start"} => possible_words = RefWords

\* C13: every chain solve_game returns from a fresh Game is a legal winning chain: it
\* is not empty, each of its words is a word of the dictionary that satisfies the
\* alphabet and adjacency rules, each word after the first starts with the last letter
\* of the word before it, and the words together use all twelve letters.
C13_ReturnedChainsLegal ==
    (pc = "done" /\ FreshStart) =>
        \A c \in Range(result) :
            /\ c # <<>>
            /\ \A i \in DOMAIN c :
                   /\ c[i] \in Range(WORDS)
                   /\ AlphabetRule(game.sides, c[i])
                   /\ SameSideRule(game.sides, c[i])
                   /\ i > 1 => FirstChar(c[i]) = LastChar(c[i - 1])
            /\ game.sides.all_chars \subseteq LettersOfChain(c)
            /\ Cardinality(LettersOfChain(c)) = 12

C13_Witness ==
    /\ pc = "done" /\ FreshStart
    /\ Range(WORDS) \ RefWords # {}
    /\ \E c \in Range(result) : Len(c) = 3
    /\ \E c \in Range(result) : Len(c) = 2

\* The level loop run by one thread, as a function of the call's arguments alone.
\* The candidate words: the dictionary words that satisfy the alphabet and adjacency
\* rules and, when the starting Game has a chain, start with its last letter (C12)
SeqWords ==
    {w \in Range(WORDS) : /\ AlphabetRule(game.sides, w)
                          /\ SameSideRule(game.sides, w)
                          /\ ChainRule(game, w)}
\* the chains of S extended by each candidate word that chains on
SeqExtend(S) ==
    {Append(cw[1], cw[2]) :
        cw \in {x \in S \X SeqWords :
                   x[1] = <<>> \/ FirstChar(x[2]) = LastChar(LastOf(x[1]))}}
\* the loop after k levels: `open` the chains of the frontier, `won` the chains of the
\* clones that became won in levels 1..k, `last` those of level k
RECURSIVE SeqRun(_)
SeqRun(k) ==
    IF k = 0
    THEN [open |-> {game.previous_words}, won |-> {}, last |-> {}]
    ELSE LET r == SeqRun(k - 1)
             e == SeqExtend(r.open)
             w == {c \in e : RefWon(c)}
         IN  [open |-> e \ w, won |-> r.won \cup w, last |-> w]
\* the loop stops after k levels: a chain of min_words words is known or k is the cap
SeqStops(k) == k = 10 \/ \E c \in SeqRun(k).won : Len(c) >= min_words
\* the tasks that hold the guard of the solutions mutex
Holders == {b \in DOMAIN branches : branches[b].locked}

\* C14: under every interleaving of the tasks of a level, at most one task at a time
\* holds the guard under which it appends to the solutions (and the mutex names it);
\* when a level has ended, the chain of each clone that became won in the levels run
\* so far is in the collection exactly once and nothing else is; and the number of
\* levels run and the set of chains returned are those of the loop run by one thread.
C14_ExclusiveAppendsNoneLost ==
    /\ pc = "expand" =>
           /\ Cardinality(Holders) <= 1
           /\ \A b \in Holders : lock = b /\ branches[b].cur # NoChain
           /\ lock # NoBranch => lock \in Holders
    /\ pc = "loop" =>
           LET won == SeqRun(level).won
           IN  /\ \A c \in won :
                      Cardinality({i \in DOMAIN solutions : solutions[i] = c}) = 1
               /\ Range(solutions) \subseteq won
    /\ pc = "done" =>
           LET won == SeqRun(level).won
           IN  /\ SeqStops(level)
               /\ level >= 1 => ~SeqStops(level - 1)
               /\ Range(result) = won
               /\ Len(result) = Cardinality(won)

C14_Witness ==
    /\ pc = "expand"
    /\ \E b1, b2 \in DOMAIN branches :
           /\ b1 # b2
           /\ branches[b1].locked
           /\ branches[b2].cur # NoChain /\ ~branches[b2].locked
           /\ branches[b1].cur # branches[b2].cur

\* C15: the early-exit test is made only between levels.  While the loop is at its
\* head, or has been left, no task is under way and the mutex is free; when a level has
\* ended, every Game of its frontier has been extended by every one of its candidate
\* words (the new frontier holds all the extensions that did not win, the collection
\* all that won), whether or not a chain of min_words words was pushed on the way; and
\* the returned list holds every winning chain of the last level run.
C15_EarlyExitBetweenLevels ==
    /\ pc \in {"loop", "sort", "done"} => (branches = <<>> /\ lock = NoBranch)
    /\ pc \in {"loop", "sort"} =>
           LET r == SeqRun(level)
           IN  /\ {g.previous_words : g \in BagToSet(games)} = r.open
               /\ r.last \subseteq Range(solutions)
    /\ pc = "done" => SeqRun(level).last \subseteq Range(result)

C15_Witness ==
    /\ pc = "expand"
    /\ solutions # <<>>
    /\ early_exit(solutions, min_words)
    /\ Len(LastOf(solutions)) = Len(game.previous_words) + level + 1
    /\ \E b \in DOMAIN branches :
           \E w \in BagToSet(branches[b].todo) : RefWon(Append(b[1].previous_words, w))

\* c is a proper prefix of d
IsProperPrefix(c, d) == Len(c) < Len(d) /\ SubSeq(d, 1, Len(c)) = c

\* C16: a won state is never expanded.  The Game a task expands and the clones it keeps
\* for the next frontier are not won, from the first level on the frontier holds only
\* Games for which check_win is false (none that uses all the letters), every chain a
\* task is about to push or has pushed is the chain of a won clone and is not in the
\* frontier, and no chain recorded or returned is a proper prefix of another.
C16_WonStateNotExpanded ==
    pc \notin {"idle", "start"} =>
        /\ \A b \in DOMAIN branches :
               /\ ~check_win(b[1])
               /\ \A g \in BagToSet(branches[b].out) :
                      ~check_win(g) /\ ~RefWon(g.previous_words)
               /\ branches[b].cur # NoChain => RefWon(branches[b].cur)
        /\ level >= 1 =>
               \A g \in BagToSet(games) : ~check_win(g) /\ ~RefWon(g.previous_words)
        /\ \A c \in Range(solutions) \cup Range(result) :
               /\ RefWon(c)
               /\ \A g \in BagToSet(games) : g.previous_words # c
               /\ \A d \in Range(solutions) \cup Range(result) : ~IsProperPrefix(c, d)

C16_Witness ==
    /\ pc = "done"
    /\ \E c, d \in Range(result) : Len(c) < Len(d) /\ c[1] = d[1]

\* C17: solve_game terminates: it never runs more than 10 level expansions, whatever
\* the frontier and min_words are, no chain it builds or returns has more than 10 words
\* more than the starting Game's chain, and every call eventually returns.
C17_SolveTerminates ==
    /\ [](/\ level <= 10
          /\ pc = "expand" => level < 10
          /\ \A c \in SolverChains : Len(c) <= Len(game.previous_words) + 10)
    /\ <>(pc = "done")

C17_Witness ==
    /\ pc = "done"
    /\ level = 10
    /\ games # EmptyBag
    /\ \E g \in BagToSet(games) : Len(g.previous_words) = Len(game.previous_words) + 10

\* all chains of k legal words in which each word starts with the last letter of the
\* word before it, won prefixes or not
RECURSIVE RefChains(_)
RefChains(k) == IF k = 0 THEN {<<>>} ELSE RefExtend(RefChains(k - 1))

\* C18: for solve_game(game, N) from a fresh Game, the returned chains of at least N
\* words all have the same number of words; and every chain solve (N = 0) returns has
\* the same number of words, the smallest number of words of any winning chain.
C18_SameWordCount ==
    (pc = "done" /\ FreshStart) =>
        /\ \A c, d \in Range(result) :
               (Len(c) >= min_words /\ Len(d) >= min_words) => Len(c) = Len(d)
        /\ IsSolve =>
               \A c \in Range(result) :
                   /\ \A d \in Range(result) : Len(d) = Len(c)
                   /\ \A k \in 0..(Len(c) - 1) : \A d \in RefChains(k) : ~RefWon(d)

C18_Witness ==
    /\ pc = "done" /\ FreshStart
    /\ \E c \in Range(result) : Len(c) < min_words
    /\ \E c, d \in Range(result) : c # d /\ Len(c) >= min_words /\ Len(d) >= min_words
    /\ RefSolutions(level + 1) # {}

\* the sequence has no element twice
NoDuplicates(seq) == \A i, j \in DOMAIN seq : seq[i] = seq[j] => i = j

\* C19: solve_game returns no chain twice, also when the dictionary lists a word more
\* than once: the Games of a frontier, and those the tasks keep for the next, have
\* pairwise distinct chains, there is one task per frontier Game and it visits each of
\* its candidate words once, and no chain is recorded twice.
C19_NoChainTwice ==
    pc \notin {"idle", "start"} =>
        /\ \A g \in BagToSet(games) : CopiesIn(g, games) = 1
        /\ \A g, h \in BagToSet(games) : g.previous_words = h.previous_words => g = h
        /\ \A b \in DOMAIN branches :
               /\ b[2] = 1
               /\ \A w \in BagToSet(branches[b].todo) : CopiesIn(w, branches[b].todo) = 1
               /\ \A g \in BagToSet(branches[b].out) : CopiesIn(g, branches[b].out) = 1
               /\ branches[b].cur \notin Range(solutions)
        /\ NoDuplicates(solutions)
        /\ NoDuplicates(result)

C19_Witness ==
    /\ pc = "done"
    /\ Len(WORDS) > Cardinality(Range(WORDS))
    /\ \E c \in Range(result) :
           \E k \in DOMAIN c : Cardinality({i \in DOMAIN WORDS : WORDS[i] = c[k]}) = 2

----------------------------------------------------------------------------
(* Properties of Game::today and Game::yesterday (SpecData)                *)

\* why the provider cannot supply a puzzle, "no" if it can
Unavailable ==
    IF env.net = "err" \/ env.body = "err" THEN "network failure"
    ELSE IF env.script = "absent" THEN "no gameData script"
    ELSE IF env.script = "present" /\ env.json = "err" THEN "parse failure"
    ELSE "no"

\* C10: when the provider cannot supply a puzzle (the request fails, the page has no
\* gameData script, or the record does not parse), Game::today and Game::yesterday
\* return None and nothing panics.
C10_AbsenceIsNone ==
    (dpc \in {"done", "panic"} /\ Unavailable # "no") => (dpc = "done" /\ dresult = "None")
====
